---------------------------- MODULE Spec2Model ----------------------------
(***************************************************************************)
(* Pokemon card flip app: the fetch service (js/pokemon.js) and the card   *)
(* controller (the application script, src/unnamed/part_000).              *)
(*                                                                         *)
(* JavaScript runs each callback to completion, so one action is one       *)
(* callback: the synchronous part of initApp down to the first await, the  *)
(* settlement of one network promise, the continuation after an await,     *)
(* one click event.                                                        *)
(***************************************************************************)
EXTENDS Integers, Sequences, FiniteSets

VARIABLES
    loadingSpinner,  \* [hidden : BOOLEAN], classList of #loading-spinner
    cardGrid,        \* [hidden : BOOLEAN, listening : BOOLEAN], #card-grid
    cards,           \* the cards array: sequence of card elements
    appPc,           \* position of initApp / fetchAndAssignPokemon
    count,           \* argument of the fetchMultipleRandomPokemon call in flight
    lookups,         \* one fetchRandomPokemon call per position of promises[]
    all,             \* the Promise.all over promises[]
    svcPc,           \* position of fetchMultipleRandomPokemon
    pokemonList,     \* what fetchMultipleRandomPokemon resolved to
    lastClick,       \* history: the last click event and the flags before it
    data,            \* input of processPokemonData
    processed,       \* output of processPokemonData
    returned         \* what fetchRandomPokemon returns for that output

vars == <<loadingSpinner, cardGrid, cards, appPc, count, lookups, all,
          svcPc, pokemonList, lastClick, data, processed, returned>>

appVars == <<loadingSpinner, cardGrid, cards, appPc, lastClick>>
svcVars == <<count, lookups, all, svcPc, pokemonList>>
fnVars  == <<data, processed, returned>>

---------------------------------------------------------------------------
(* Bounds of the model *)

\* the grid size; the application sets 12 (part_000:11), the grids explored
\* here are smaller, every slot being handled alike
CARD_COUNT == 3
\* largest count of a direct fetchMultipleRandomPokemon call
MaxCount == 4
\* longest stats list of a raw entity
MaxStats == 3

---------------------------------------------------------------------------
(* JavaScript values *)

Undefined == [t |-> "undefined"]
Null      == [t |-> "null"]
Str(s)    == [t |-> "string", v |-> s]
\* an exception in flight (a rejected promise, a throw)
Thrown    == [t |-> "throw"]

IsNullish(v) == v = Undefined \/ v = Null

\* ToBoolean: undefined, null and "" are falsy
Truthy(v) == ~IsNullish(v) /\ v # Str("")

\* a || b
OrElse(a, b) == IF Truthy(a) THEN a ELSE b

\* ToString, as an assignment to img.src or a template literal applies it
ToStr(v) ==
    IF v = Undefined THEN "undefined"
    ELSE IF v = Null THEN "null"
    ELSE v.v

---------------------------------------------------------------------------
(* js/pokemon.js: constants and pure functions *)

TOTAL_POKEMON == 1008

\* Math.floor(Math.random() * TOTAL_POKEMON) + 1 ranges over 1..TOTAL_POKEMON;
\* the model draws the two ends of the range
RandomIds == {1, TOTAL_POKEMON}

toUpperCase(c) ==
    IF c = "a" THEN "A" ELSE IF c = "b" THEN "B" ELSE c

\* string.replace(/-/g, ' ') then charAt(0).toUpperCase() + slice(1);
\* strings are sequences of characters
capitalizeFirstLetter(string) ==
    LET fixedString == [k \in DOMAIN string |->
                           IF string[k] = "-" THEN " " ELSE string[k]]
    IN  IF fixedString = <<>> THEN <<>>
        ELSE <<toUpperCase(fixedString[1])>> \o Tail(fixedString)

\* stats.find(s => s.stat.name === statName): the first match, or undefined
FindIndex(stats, statName) ==
    LET hits == {k \in DOMAIN stats : stats[k].stat.name = statName}
    IN  IF hits = {} THEN 0
        ELSE CHOOSE k \in hits : \A j \in hits : k <= j

\* fault: the predicate assigns instead of comparing (s.stat.name = statName),
\* which is truthy for every entry, so find returns the first entry
findStatFirstEntry(stats, statName) ==
    IF stats = <<>> THEN 0 ELSE stats[1].base_stat

\* stat?.base_stat || 0
findStat(stats, statName) ==
    LET k == FindIndex(stats, statName)
    IN  IF k = 0 THEN 0
        ELSE IF stats[k].base_stat # 0 THEN stats[k].base_stat ELSE 0

\* the property reads of processPokemonData that throw a TypeError: a read
\* through undefined or null
ProcessThrows(d) ==
    \/ IsNullish(d.sprites)
    \/ IsNullish(d.sprites.other)
    \/ IsNullish(d.sprites.other.official_artwork)
    \/ IsNullish(d.species)

\* height and weight are data.height / 10: kept as the pair <<n, 10>>
processPokemonData(d) ==
    IF ProcessThrows(d) THEN Thrown
    ELSE [ id        |-> d.id,
           name      |-> capitalizeFirstLetter(d.name),
           sprite    |-> OrElse(d.sprites.other.official_artwork.front_default,
                                d.sprites.front_default),
           types     |-> [k \in DOMAIN d.types |-> d.types[k].type.name],
           height    |-> <<d.height, 10>>,
           weight    |-> <<d.weight, 10>>,
           abilities |-> [k \in DOMAIN d.abilities |->
                             capitalizeFirstLetter(d.abilities[k].ability.name)],
           stats     |-> [ hp      |-> findStat(d.stats, "hp"),
                           attack  |-> findStat(d.stats, "attack"),
                           defense |-> findStat(d.stats, "defense"),
                           speed   |-> findStat(d.stats, "speed") ],
           speciesUrl |-> d.species.url ]

---------------------------------------------------------------------------
(* Raw entities: the bodies the remote API may answer with *)

ART_URL == "official-artwork.png"
DEF_URL == "front_default.png"

StatKeys == {"hp", "attack", "defense", "speed"}

StatEntries == [stat : [name : StatKeys], base_stat : {45, 90}]

RECURSIVE SeqsUpTo(_, _)
SeqsUpTo(S, n) ==
    IF n = 0 THEN {<<>>}
    ELSE LET shorter == SeqsUpTo(S, n - 1)
         IN  shorter \cup
             {Append(s, e) : s \in {q \in shorter : Len(q) = n - 1}, e \in S}

StatsLists == SeqsUpTo(StatEntries, MaxStats)

\* sprites.other["official-artwork"]: missing, or an object whose
\* front_default is a URL, null or missing
ArtObjects ==
    {Undefined} \cup {[front_default |-> v] : v \in {Str(ART_URL), Null, Undefined}}

SpriteObjects ==
    {[other |-> [official_artwork |-> a], front_default |-> f] :
        a \in ArtObjects, f \in {Str(DEF_URL), Null, Undefined}}

FullStats ==
    << [stat |-> [name |-> "hp"],      base_stat |-> 45],
       [stat |-> [name |-> "attack"],  base_stat |-> 90],
       [stat |-> [name |-> "defense"], base_stat |-> 45],
       [stat |-> [name |-> "speed"],   base_stat |-> 90] >>

RawEntity(id, sprites, stats) ==
    [ id        |-> id,
      name      |-> <<"a", "-", "b">>,
      sprites   |-> sprites,
      types     |-> << [slot |-> 1, type |-> [name |-> "fire"]] >>,
      height    |-> 7,
      weight    |-> 69,
      abilities |-> << [ability |-> [name |-> <<"b", "-", "a">>]] >>,
      stats     |-> stats,
      species   |-> [url |-> "species"] ]

RawEntities ==
    {RawEntity(1, s, st) : s \in SpriteObjects, st \in StatsLists}

\* what GET {base}/pokemon/{id} answers in the service runs: the entity of
\* that id, whole or lacking the official-artwork object; the first entity
\* has both sprites, the last one has neither
CompleteSprites ==
    [other |-> [official_artwork |-> [front_default |-> Str(ART_URL)]],
     front_default |-> Str(DEF_URL)]

NoSprites ==
    [other |-> [official_artwork |-> [front_default |-> Null]],
     front_default |-> Undefined]

SpritesOf(id) == IF id = 1 THEN CompleteSprites ELSE NoSprites

NoArtSprites(id) ==
    [other |-> [official_artwork |-> Undefined],
     front_default |-> SpritesOf(id).front_default]

Bodies(id) ==
    {RawEntity(id, SpritesOf(id), FullStats), RawEntity(id, NoArtSprites(id), FullStats)}

\* HTTP status codes of a response; response.ok is status in 200..299
Statuses == {200, 404, 500}
ResponseOk(status) == status >= 200 /\ status <= 299

---------------------------------------------------------------------------
(* js/pokemon.js: fetchRandomPokemon and fetchMultipleRandomPokemon *)

\* fault: no catch block, what was thrown rejects the call's promise
CatchRethrows(v) == v

\* the catch block of fetchRandomPokemon: whatever was thrown in the try
\* block is logged and the call returns null
CatchReturnNull(v) == IF v = Thrown THEN Null ELSE v

\* one fetchRandomPokemon call suspended at `await fetch(...)`
NewLookup(randomId) ==
    [pc |-> "fetch", randomId |-> randomId, value |-> Undefined,
     outcome |-> "pending"]

\* the call has returned: its locals are gone, its promise holds v
Returned(v, outcome) ==
    [pc |-> "done", randomId |-> 0, value |-> v, outcome |-> outcome]

\* Promise.all(promises): an indexed result buffer, fulfilled when every
\* element is, rejected as soon as one element rejects
PromiseAll(n) ==
    [state     |-> IF n = 0 THEN "fulfilled" ELSE "pending",
     values    |-> [k \in 1..n |-> Undefined],
     remaining |-> n,
     outOfOrder |-> FALSE]

\* history: element i settles while a lower position is still unsettled
SettlesEarly(a, i) == \E k \in 1..(i - 1) : a.values[k] = Undefined

\* fault: results collected in the order the lookups settle
PromiseAllSettleInArrivalOrder(a, i, v) ==
    IF a.state # "pending" THEN a
    ELSE IF v = Thrown THEN [a EXCEPT !.state = "rejected"]
    ELSE [a EXCEPT !.values[Len(a.values) - a.remaining + 1] = v,
                   !.remaining = @ - 1,
                   !.state = IF a.remaining = 1 THEN "fulfilled" ELSE "pending",
                   !.outOfOrder = @ \/ SettlesEarly(a, i)]

PromiseAllSettle(a, i, v) ==
    IF a.state # "pending" THEN a
    ELSE IF v = Thrown THEN [a EXCEPT !.state = "rejected"]
    ELSE [a EXCEPT !.values[i] = v,
                   !.remaining = @ - 1,
                   !.state = IF a.remaining = 1 THEN "fulfilled" ELSE "pending",
                   !.outOfOrder = @ \/ SettlesEarly(a, i)]

\* fetchRandomPokemon i returns (or throws) v
Settle(i, v, outcome) ==
    /\ lookups' = [lookups EXCEPT ![i] = Returned(v, outcome)]
    /\ all' = PromiseAllSettle(all, i, v)
    /\ UNCHANGED <<count, svcPc, pokemonList>>

\* fetchMultipleRandomPokemon(n) down to `await Promise.all(promises)`
StartBatch(n, ids) ==
    /\ svcPc = "idle"
    /\ count' = n
    /\ lookups' = [k \in 1..n |-> NewLookup(ids[k])]
    /\ all' = PromiseAll(n)
    /\ svcPc' = "awaitAll"
    /\ UNCHANGED pokemonList

\* fetch() rejects: no response (network unreachable, timed out)
TransportFailure(i) ==
    /\ i \in DOMAIN lookups
    /\ lookups[i].pc = "fetch"
    /\ Settle(i, CatchReturnNull(Thrown), "transport")
    /\ UNCHANGED <<appVars, fnVars>>

\* fetch() resolves with a response of some status
Response(i) ==
    /\ i \in DOMAIN lookups
    /\ lookups[i].pc = "fetch"
    /\ \E status \in Statuses :
          IF ~ResponseOk(status)
          THEN Settle(i, CatchReturnNull(Thrown), "status")
          ELSE /\ lookups' = [lookups EXCEPT ![i].pc = "json"]
               /\ UNCHANGED <<count, all, svcPc, pokemonList>>
    /\ UNCHANGED <<appVars, fnVars>>

\* response.json() rejects: the body is not JSON
BodyUnparseable(i) ==
    /\ i \in DOMAIN lookups
    /\ lookups[i].pc = "json"
    /\ Settle(i, CatchReturnNull(Thrown), "syntax")
    /\ UNCHANGED <<appVars, fnVars>>

\* response.json() resolves with the body; processPokemonData maps it, or
\* throws on a body that lacks a nested field it reads through
BodyParsed(i) ==
    /\ i \in DOMAIN lookups
    /\ lookups[i].pc = "json"
    /\ \E body \in Bodies(lookups[i].randomId) :
          LET out == processPokemonData(body)
          IN  Settle(i, CatchReturnNull(out),
                     IF out = Thrown THEN "malformed" ELSE "ok")
    /\ UNCHANGED <<appVars, fnVars>>

\* fault: the failed lookups are filtered out of the list
fetchMultipleResultFiltered(a) ==
    IF a.state = "rejected" THEN <<>>
    ELSE SelectSeq(a.values, LAMBDA v : v # Null)

\* the value of `await Promise.all(promises)`, or the catch block's []
fetchMultipleResult(a) ==
    IF a.state = "rejected" THEN <<>> ELSE a.values

\* fetchMultipleRandomPokemon resumes after the await and returns: the
\* promises array and the Promise.all over it are unreachable from then on
BatchReturns ==
    /\ svcPc = "awaitAll"
    /\ all.state \in {"fulfilled", "rejected"}
    /\ pokemonList' = fetchMultipleResult(all)
    /\ svcPc' = "returned"
    /\ lookups' = <<>>
    /\ all' = PromiseAll(0)
    /\ UNCHANGED <<count, appVars, fnVars>>

---------------------------------------------------------------------------
(* The application script: cards, binding, click dispatch *)

DEBUG_SHOW_SPINNER == TRUE

\* createCardElement(index): div.card > div.card-inner > (div.card-front >
\* img.pokemon-img, div.card-back); `flipped` is the class of that name,
\* `pokemon` is dataset.pokemon, `back` the children of div.card-back
createCardElement(index) ==
    [index |-> index, flipped |-> FALSE, pokemon |-> Undefined, back |-> <<>>]

\* createCardElements: the cards array is emptied and refilled; JavaScript
\* index i is position i + 1 of the sequence
createCardElements == [k \in 1..CARD_COUNT |-> createCardElement(k - 1)]

\* JSON.stringify(pokemon): a key whose value is undefined is left out, null
\* is kept; sprite is the one key of a processed record that can be undefined
JSONstringify(pokemon) ==
    IF pokemon.sprite = Undefined
    THEN [k \in (DOMAIN pokemon) \ {"sprite"} |-> pokemon[k]]
    ELSE pokemon

\* the children assignPokemonToCard appends to div.card-back
CardBack(pokemon) ==
    << [node |-> "img-wrapper",
        img  |-> [src |-> ToStr(pokemon.sprite), alt |-> pokemon.name]],
       [node |-> "h2", textContent |-> pokemon.name],
       [node |-> "pokemon-types", badges |-> pokemon.types],
       [node |-> "p", height |-> pokemon.height, weight |-> pokemon.weight,
        abilities |-> Len(pokemon.abilities)] >>

\* fault: binding a card also turns it over
assignPokemonToCardFlipped(card, pokemon) ==
    IF IsNullish(card) \/ IsNullish(pokemon) THEN card
    ELSE [card EXCEPT !.pokemon = JSONstringify(pokemon),
                      !.back = CardBack(pokemon),
                      !.flipped = TRUE]

assignPokemonToCard(card, pokemon) ==
    IF IsNullish(card) \/ IsNullish(pokemon) THEN card
    ELSE [card EXCEPT !.pokemon = JSONstringify(pokemon),
                      !.back = CardBack(pokemon)]

\* pokemonList[i]: undefined past the end of the array
ListAt(list, k) == IF k \in DOMAIN list THEN list[k] ELSE Undefined

\* fault: the loop reads pokemonList[i + 1]
AssignAllShifted(cs, list) ==
    [k \in DOMAIN cs |-> assignPokemonToCard(cs[k], ListAt(list, k + 1))]

\* the for loop of fetchAndAssignPokemon
AssignAll(cs, list) ==
    [k \in DOMAIN cs |-> assignPokemonToCard(cs[k], ListAt(list, k))]

\* DOM elements of the page a click can land on or bubble through
NoElement == [node |-> "null", slot |-> 0]
GridElement == [node |-> "card-grid", slot |-> 0]
El(node, k) == [node |-> node, slot |-> k]

parentElement(e) ==
    CASE e.node = "html"          -> NoElement
      [] e.node = "body"          -> El("html", 0)
      [] e.node = "card-grid"     -> El("body", 0)
      [] e.node = "card"          -> GridElement
      [] e.node = "card-inner"    -> El("card", e.slot)
      [] e.node = "card-front"    -> El("card-inner", e.slot)
      [] e.node = "front-img"     -> El("card-front", e.slot)
      [] e.node = "card-back"     -> El("card-inner", e.slot)
      [] e.node = "img-wrapper"   -> El("card-back", e.slot)
      [] e.node = "back-img"      -> El("img-wrapper", e.slot)
      [] e.node = "h2"            -> El("card-back", e.slot)
      [] e.node = "pokemon-types" -> El("card-back", e.slot)
      [] e.node = "type-badge"    -> El("pokemon-types", e.slot)
      [] e.node = "p"             -> El("card-back", e.slot)

\* element.classList.contains('card'): only div.card carries that class
IsCard(e) == e.node = "card"

\* the while loop of handleCardClick
RECURSIVE ClosestCard(_)
ClosestCard(element) ==
    IF element # NoElement /\ ~IsCard(element)
    THEN ClosestCard(parentElement(element))
    ELSE element

\* fault: classList.add('flipped') in place of toggle
handleCardClickAdd(cs, target) ==
    LET element == ClosestCard(target)
    IN  IF element = NoElement THEN cs
        ELSE [cs EXCEPT ![element.slot].flipped = TRUE]

\* handleCardClick(event): the cards after the handler ran
handleCardClick(cs, target) ==
    LET element == ClosestCard(target)
    IN  IF element = NoElement THEN cs
        ELSE [cs EXCEPT ![element.slot].flipped = ~@]

\* where a click can land: the grid outside any card, a card itself, the
\* image on its front and, once the card is bound, the image and a type
\* badge on its back
FrontNodes == {"card", "front-img"}
BackNodes  == {"back-img", "type-badge"}

Targets ==
    {GridElement}
      \cup {El(n, k) : n \in FrontNodes, k \in DOMAIN cards}
      \cup {El(n, k) : n \in BackNodes,
                       k \in {j \in DOMAIN cards : cards[j].back # <<>>}}

\* history: the slot a click target lies in, by the structure of the grid
SlotOf(target) == target.slot

Flags(cs) == [k \in DOMAIN cs |-> cs[k].flipped]

\* history of the clicks: the slot of the last click (0: none), the flags
\* before it and, when the click before it was in the same slot, the flags
\* before that one
NoClick == [slot |-> 0, before |-> <<>>, origin |-> <<>>]

Clicked(target) ==
    [slot   |-> SlotOf(target),
     before |-> Flags(cards),
     origin |-> IF SlotOf(target) # 0 /\ lastClick.slot = SlotOf(target)
                THEN lastClick.before ELSE <<>>]

\* fault: the spinner is hidden before fetchAndAssignPokemon is awaited
InitAppHidesEarly ==
    /\ appPc = "start"
    /\ loadingSpinner' = [loadingSpinner EXCEPT !.hidden = TRUE]
    /\ cardGrid' = [cardGrid EXCEPT !.hidden = TRUE]
    /\ cards' = createCardElements
    /\ \E ids \in [1..CARD_COUNT -> RandomIds] : StartBatch(CARD_COUNT, ids)
    /\ appPc' = "awaitFetch"
    /\ UNCHANGED <<lastClick, fnVars>>

\* initApp down to the await inside fetchAndAssignPokemon: showLoading, the
\* grid hidden, createCardElements, fetchMultipleRandomPokemon(CARD_COUNT)
InitApp ==
    /\ appPc = "start"
    /\ loadingSpinner' = [loadingSpinner EXCEPT !.hidden = FALSE]
    /\ cardGrid' = [cardGrid EXCEPT !.hidden = TRUE]
    /\ cards' = createCardElements
    /\ \E ids \in [1..CARD_COUNT -> RandomIds] : StartBatch(CARD_COUNT, ids)
    /\ appPc' = "awaitFetch"
    /\ UNCHANGED <<lastClick, fnVars>>

\* fetchAndAssignPokemon resumes with pokemonList: the debug delay starts,
\* or without it the cards are bound at once
AfterFetch ==
    /\ appPc = "awaitFetch"
    /\ svcPc = "returned"
    /\ IF DEBUG_SHOW_SPINNER
       THEN /\ appPc' = "delay"
            /\ UNCHANGED cards
       ELSE /\ appPc' = "assigned"
            /\ cards' = AssignAll(cards, pokemonList)
    /\ UNCHANGED <<loadingSpinner, cardGrid, lastClick, svcVars, fnVars>>

\* the LOADING_DELAY timer fires: the for loop binds the cards
TimerFires ==
    /\ appPc = "delay"
    /\ cards' = AssignAll(cards, pokemonList)
    /\ appPc' = "assigned"
    /\ UNCHANGED <<loadingSpinner, cardGrid, lastClick, svcVars, fnVars>>

\* fault: the grid is revealed only when some card was bound
InitAppResumesIfBound ==
    /\ appPc = "assigned"
    /\ \E k \in DOMAIN cards : cards[k].pokemon # Undefined
    /\ cardGrid' = [hidden |-> FALSE, listening |-> TRUE]
    /\ loadingSpinner' = [loadingSpinner EXCEPT !.hidden = TRUE]
    /\ appPc' = "done"
    /\ UNCHANGED <<cards, lastClick, svcVars, fnVars>>

\* initApp resumes after `await fetchAndAssignPokemon()`: setupEventListeners,
\* hideLoading, the grid shown
InitAppResumes ==
    /\ appPc = "assigned"
    /\ cardGrid' = [hidden |-> FALSE, listening |-> TRUE]
    /\ loadingSpinner' = [loadingSpinner EXCEPT !.hidden = TRUE]
    /\ appPc' = "done"
    /\ UNCHANGED <<cards, lastClick, svcVars, fnVars>>

\* a click inside the grid reaches the delegated listener
Click(target) ==
    /\ cardGrid.listening
    /\ cards' = handleCardClick(cards, target)
    /\ lastClick' = Clicked(target)
    /\ UNCHANGED <<loadingSpinner, cardGrid, appPc, svcVars, fnVars>>

---------------------------------------------------------------------------
(* The fetch service called directly, with any count *)

IdleApp ==
    /\ loadingSpinner = [hidden |-> FALSE]
    /\ cardGrid = [hidden |-> FALSE, listening |-> FALSE]
    /\ cards = <<>>
    /\ appPc = "start"
    /\ lastClick = NoClick

IdleService ==
    /\ count = 0
    /\ lookups = <<>>
    /\ all = PromiseAll(0)
    /\ svcPc = "idle"
    /\ pokemonList = <<>>

IdleFn ==
    /\ data = Undefined
    /\ processed = Undefined
    /\ returned = Undefined

InitBatch == IdleApp /\ IdleService /\ IdleFn

CallBatch ==
    /\ \E n \in 0..MaxCount : \E ids \in [1..n -> RandomIds] : StartBatch(n, ids)
    /\ UNCHANGED <<appVars, fnVars>>

NextBatch ==
    \/ CallBatch
    \/ \E i \in 1..Len(lookups) : TransportFailure(i)
    \/ \E i \in 1..Len(lookups) : Response(i)
    \/ \E i \in 1..Len(lookups) : BodyUnparseable(i)
    \/ \E i \in 1..Len(lookups) : BodyParsed(i)
    \/ BatchReturns

SpecBatch == InitBatch /\ [][NextBatch]_vars

---------------------------------------------------------------------------
(* One response body through processPokemonData and the catch block *)

InitFn ==
    /\ data \in RawEntities
    /\ processed = Undefined
    /\ returned = Undefined
    /\ IdleApp
    /\ IdleService

Process ==
    /\ processed = Undefined
    /\ processed' = processPokemonData(data)
    /\ UNCHANGED <<data, returned, appVars, svcVars>>

Return ==
    /\ processed # Undefined
    /\ returned = Undefined
    /\ returned' = CatchReturnNull(processed)
    /\ UNCHANGED <<data, processed, appVars, svcVars>>

NextFn == Process \/ Return

SpecFn == InitFn /\ [][NextFn]_vars

---------------------------------------------------------------------------
(* The application *)

\* the page as loaded: index.html decides whether the spinner and the grid
\* start hidden
Init ==
    /\ loadingSpinner \in [hidden : BOOLEAN]
    /\ cardGrid \in [hidden : BOOLEAN, listening : {FALSE}]
    /\ cards = <<>>
    /\ appPc = "start"
    /\ lastClick = NoClick
    /\ IdleService
    /\ IdleFn

Next ==
    \/ InitApp
    \/ \E i \in 1..Len(lookups) : TransportFailure(i)
    \/ \E i \in 1..Len(lookups) : Response(i)
    \/ \E i \in 1..Len(lookups) : BodyUnparseable(i)
    \/ \E i \in 1..Len(lookups) : BodyParsed(i)
    \/ BatchReturns
    \/ AfterFetch
    \/ TimerFires
    \/ InitAppResumes
    \/ \E target \in Targets : Click(target)

Spec == Init /\ [][Next]_vars

\* the event loop runs every continuation and timer callback that is ready;
\* nothing makes the network answer or the user click
FairSpec ==
    /\ Spec
    /\ WF_vars(BatchReturns)
    /\ WF_vars(AfterFetch)
    /\ WF_vars(TimerFires)
    /\ WF_vars(InitAppResumes)

---------------------------------------------------------------------------
(* Properties *)

ReturnStep == svcPc = "awaitAll" /\ svcPc' = "returned"

FailureKinds == {"transport", "status", "syntax", "malformed"}

\* the record a complete body of some id is mapped to
IsEntityRecord(v) ==
    \E id \in RandomIds :
        v = processPokemonData(RawEntity(id, SpritesOf(id), FullStats))

\* C1: fetchMultipleRandomPokemon(count) resolves, whatever each lookup's
\* outcome was, and resolves to a list of exactly count elements, each null
\* or an entity record; the join it awaits is never rejected
C1_BatchLength ==
    [][ReturnStep =>
          /\ all.state = "fulfilled"
          /\ Len(pokemonList') = count
          /\ \A k \in DOMAIN pokemonList' :
                pokemonList'[k] = Null \/ IsEntityRecord(pokemonList'[k])]_vars

C1_Witness ==
    /\ svcPc = "returned"
    /\ count = MaxCount
    /\ Len(pokemonList) = MaxCount
    /\ \E k \in DOMAIN pokemonList : pokemonList[k] = Null
    /\ \E k \in DOMAIN pokemonList : pokemonList[k] # Null

\* C2: a lookup that failed (transport failure, non-success status, body
\* that is not JSON or lacks a nested field) leaves null at its position,
\* and every other position holds what its own lookup returned: an entity
\* record where that lookup succeeded
C2_FailureIsolated ==
    [][ReturnStep =>
          \A i \in DOMAIN lookups :
              lookups[i].outcome \in FailureKinds =>
                  /\ ListAt(pokemonList', i) = Null
                  /\ \A j \in DOMAIN lookups \ {i} :
                        /\ ListAt(pokemonList', j) = lookups[j].value
                        /\ lookups[j].outcome = "ok" =>
                              IsEntityRecord(ListAt(pokemonList', j))]_vars

C2_Witness ==
    /\ svcPc = "awaitAll"
    /\ all.state = "fulfilled"
    /\ \A kind \in {"transport", "status", "malformed"} :
          \E i \in DOMAIN lookups :
              lookups[i].outcome = kind /\ all.values[i] = Null
    /\ \E j \in DOMAIN lookups :
          lookups[j].outcome = "ok" /\ IsEntityRecord(all.values[j])

\* C3: position i of the result is the value lookup i returned, in whatever
\* order the lookups settled: while the join is pending each settled
\* lookup's value sits at its own position, and the list returned is the
\* lookups' values in request order
C3_RequestOrder ==
    /\ [](svcPc = "awaitAll" /\ all.state # "rejected" =>
            \A i \in DOMAIN lookups :
                all.values[i] = lookups[i].value)
    /\ [][ReturnStep =>
            /\ DOMAIN pokemonList' = DOMAIN lookups
            /\ \A i \in DOMAIN lookups :
                  pokemonList'[i] = lookups[i].value]_vars

C3_Witness ==
    /\ svcPc = "awaitAll"
    /\ all.state = "fulfilled"
    /\ all.outOfOrder
    /\ count >= 2
    /\ all.values[1] # Null
    /\ all.values[2] # Null
    /\ all.values[1].id # all.values[2].id

Bound(card, pokemon) ==
    /\ card.pokemon = JSONstringify(pokemon)
    /\ card.back = CardBack(pokemon)

Unbound(card) == card.pokemon = Undefined /\ card.back = <<>>

\* C4: once fetchAndAssignPokemon has finished, card i carries the record
\* of pokemonList[i], data and back face both, when that is not null, and
\* carries nothing when it is null; a card is never half bound
C4_SlotBinding ==
    /\ \A k \in DOMAIN cards : Unbound(cards[k]) \/ cards[k].back # <<>>
    /\ appPc \in {"assigned", "done"} =>
          /\ Len(cards) = CARD_COUNT
          /\ \A k \in DOMAIN cards :
                /\ cards[k].index = k - 1
                /\ IF IsNullish(ListAt(pokemonList, k))
                   THEN Unbound(cards[k])
                   ELSE Bound(cards[k], pokemonList[k])

C4_Witness ==
    /\ appPc = "assigned"
    /\ \E k \in DOMAIN cards : pokemonList[k] = Null /\ Unbound(cards[k])
    /\ \E j, k \in DOMAIN cards :
          /\ j < k
          /\ pokemonList[j] # Null
          /\ pokemonList[k] # Null
          /\ pokemonList[j].id # pokemonList[k].id
          /\ Bound(cards[j], pokemonList[j])
          /\ Bound(cards[k], pokemonList[k])

\* C5: while the cards exist, the spinner is hidden or the grid shown only
\* when the batch has returned and every card whose result is not null has
\* been bound
C5_RevealAfterBinding ==
    (loadingSpinner.hidden \/ ~cardGrid.hidden) =>
        \A k \in DOMAIN cards :
            /\ svcPc = "returned"
            /\ appPc = "done"
            /\ ~IsNullish(ListAt(pokemonList, k)) => Bound(cards[k], pokemonList[k])

C5_Witness ==
    /\ appPc = "done"
    /\ loadingSpinner.hidden
    /\ ~cardGrid.hidden
    /\ \E k \in DOMAIN cards :
          pokemonList[k] # Null /\ Bound(cards[k], pokemonList[k])
    /\ \E k \in DOMAIN cards : pokemonList[k] = Null /\ Unbound(cards[k])

Loading ==
    /\ appPc \in {"awaitFetch", "delay", "assigned"}
    /\ ~loadingSpinner.hidden
    /\ cardGrid.hidden

Populated ==
    /\ appPc = "done"
    /\ loadingSpinner.hidden
    /\ ~cardGrid.hidden

BatchSettled == appPc = "awaitFetch" /\ all.state # "pending"

AllNull == \A k \in DOMAIN pokemonList : pokemonList[k] = Null

\* C6: initApp takes the page from no cards to Loading with CARD_COUNT
\* unbound, unrevealed cards; once the batch has settled the page reaches
\* Populated, also when every result is null, which leaves every card
\* unbound; Populated is never left
C6_Lifecycle ==
    /\ [][appPc = "start" /\ appPc' # "start" =>
            /\ cards = <<>>
            /\ Loading'
            /\ Len(cards') = CARD_COUNT
            /\ \A k \in DOMAIN cards' : Unbound(cards'[k]) /\ ~cards'[k].flipped]_vars
    /\ [](Loading \/ Populated \/ appPc = "start")
    /\ (BatchSettled ~> Populated)
    /\ [](Populated /\ AllNull =>
            Len(cards) = CARD_COUNT /\ \A k \in DOMAIN cards : Unbound(cards[k]))
    /\ [][Populated => Populated']_vars

C6_Witness ==
    /\ Populated
    /\ Len(pokemonList) = CARD_COUNT
    /\ AllNull
    /\ \A k \in DOMAIN cards : Unbound(cards[k])

\* C7: after two clicks in a row inside card i, the flag of card i is what
\* it was before the first of them; after a click outside every card, the
\* flag of every card is what it was before the click
C7_ToggleTwice ==
    /\ lastClick.origin # <<>> =>
          Flags(cards)[lastClick.slot] = lastClick.origin[lastClick.slot]
    /\ lastClick.before # <<>> /\ lastClick.slot = 0 =>
          Flags(cards) = lastClick.before

C7_Witness ==
    /\ lastClick.origin # <<>>
    /\ lastClick.slot # 0
    /\ lastClick.origin[lastClick.slot]
    /\ Flags(cards)[lastClick.slot]

\* the sprite by presence checks: the artwork URL, else the default URL,
\* else the empty string
ArtworkUrl(d) ==
    IF IsNullish(d.sprites.other.official_artwork) THEN Undefined
    ELSE d.sprites.other.official_artwork.front_default

ExpectedSprite(d) ==
    IF ~IsNullish(ArtworkUrl(d)) THEN ArtworkUrl(d)
    ELSE IF ~IsNullish(d.sprites.front_default) THEN d.sprites.front_default
    ELSE Str("")

\* C8: the lookup of a body whose other fields are all there returns a
\* record, with or without the official-artwork field, and its sprite is
\* the artwork URL if present, else the default URL if present, else ""
C8_SpriteSelection ==
    returned # Undefined =>
        /\ returned # Null
        /\ returned.sprite = ExpectedSprite(data)

StatMatches(result, stats, key) ==
    \/ /\ \A k \in DOMAIN stats : stats[k].stat.name # key
       /\ result = 0
    \/ \E k \in DOMAIN stats :
          /\ stats[k].stat.name = key
          /\ \A j \in 1..(k - 1) : stats[j].stat.name # key
          /\ result = stats[k].base_stat

\* C9: each of hp, attack, defense, speed of the record is the base_stat of
\* the first entry of that name, or 0 when the list has none; whatever the
\* stats list is, the lookup returns null only for want of the
\* official-artwork object
C9_StatLookup ==
    /\ processed # Undefined /\ processed # Thrown =>
          \A key \in StatKeys :
              StatMatches(processed.stats[key], data.stats, key)
    /\ processed = Thrown \/ returned = Null =>
          IsNullish(data.sprites.other.official_artwork)

C9_Witness ==
    /\ returned # Undefined
    /\ returned # Null
    /\ {data.stats[k].stat.name : k \in DOMAIN data.stats} =
          {"hp", "attack", "defense"}
    /\ returned.stats.speed = 0
    /\ returned.stats.hp = 90
    /\ returned.stats.attack = 45

BindStep == appPc \in {"awaitFetch", "delay"} /\ appPc' = "assigned"

ClickStep == cardGrid.listening /\ lastClick' # lastClick

\* C10: the step that binds the cards changes no card's flag; a click in
\* card i inverts the flag of card i, bound or not, and changes neither any
\* other card's flag nor what any card is bound to
C10_FlagIndependent ==
    [][/\ BindStep => Flags(cards') = Flags(cards)
       /\ ClickStep =>
             \A k \in DOMAIN cards :
                 /\ cards'[k].pokemon = cards[k].pokemon
                 /\ cards'[k].back = cards[k].back
                 /\ cards'[k].flipped =
                       IF k = lastClick'.slot THEN ~cards[k].flipped
                       ELSE cards[k].flipped]_vars

C10_Witness ==
    /\ appPc = "done"
    /\ \E j, k \in DOMAIN cards :
          /\ Unbound(cards[j]) /\ cards[j].flipped
          /\ ~Unbound(cards[k]) /\ cards[k].flipped
    /\ \E k \in DOMAIN cards : ~Unbound(cards[k]) /\ ~cards[k].flipped

=============================================================================
